---- MODULE Spec2Model ----
(***************************************************************************)
(* The Snake simulation of src/src/components/SnakeGame.tsx: the game      *)
(* state kept by the SnakeGame component, setupGame, and the Step Function *)
(* (step) with its helpers.  A tick is one call of step on the current     *)
(* game state.  Arrays are JavaScript objects: `{ ...snake }` copies the   *)
(* snake's fields but not its body array, so the body of state.snakes[i]   *)
(* and the body of the new snake are one array; the model keeps that array *)
(* in acc.state while step runs.  Around the game state the model keeps    *)
(* the agents of the roster (their kind and the key buffer of a            *)
(* KeyboardAgent), the hooks setupGame and its cleanup call, and the       *)
(* interval that drives the ticks.                                         *)
(***************************************************************************)
EXTENDS Integers, Sequences, FiniteSets, TLC

\* ------------------------------------------------------------------ bounds
\* The grid is BOARD_SIZE x BOARD_SIZE.  The source fixes 20 (line 30); the
\* model explores the same code on a grid of this size.
BOARD_SIZE == 4
\* Number of food points drawn by setupGame.  The source draws 5 (line 215).
INITIAL_FOODS == 2
\* Largest agent roster handed to the component.
MaxAgents == 3
\* Snake updates explored: a tick starts only while agents * steps, the
\* updates of the earlier ticks, is below this (3 ticks for one snake, 2 for
\* two, 1 for three).
MaxUpdates == 3
\* The same budget for a roster of loop-following agents, whose run has to
\* last until the bodies cover the grid, the snakes have run into
\* themselves and a tick has found them all dead (10 ticks for two snakes).
MaxLoopUpdates == 20
\* The budget for the rosters of built-in agents (6 ticks for one snake, 3
\* for two).
MaxAgentUpdates == 6
\* Calls of getMove per run for the rosters with a ClaudeAgent.
MaxClaudeUpdates == 2
\* Ticks for which CircleAgent holds one heading.  The source holds it for 5
\* (line 40), which no snake on a grid of this size survives; the model
\* explores the same rotation with this period.
CIRCLE_HOLD == 1
\* Largest roster handed to the component when only setupGame is explored.
MaxRoster == 4
\* Key presses explored.
MaxKeys == 2

\* The length of the bodies the geometry of the agents is evaluated on.
MaxProbeLen == 2

\* --------------------------------------------------------------- constants
STARTING_LENGTH == 3

\* The board ClaudeAgent plans on (const BOARD_SIZE = 50 in its methods).
CLAUDE_BOARD_SIZE == 50

\* calculateSpaceScore: maxDepth and the number of spaces it counts up to.
maxDepth == 8

MAX_SPACES == 64

VARIABLES
    agents,     \* agents.length: the roster handed to SnakeGame
    phase,      \* "mounted" (useState done), "running" (after setupGame), "crashed" (a throw)
    snakes,     \* gameState.snakes
    foods,      \* gameState.foods
    steps,      \* gameState.steps
    stateArg,   \* the object last passed to step, as it reads after the call
    log,        \* what the last call of step did for each snake
    kinds,      \* the class of each agent of the roster
    nextMoves,  \* KeyboardAgent.nextMoves of each agent (empty for the others)
    listening,  \* whether the agent's keydown listener is registered
    setups,     \* how often agent.setup() was called, per agent
    teardowns,  \* how often agent.teardown() was called, per agent
    timer,      \* whether the interval of the second effect is set
    keys,       \* the keydown events dispatched to the window so far
    calls,      \* the getMove calls of the last call of step, in order
    probe,      \* the arguments a helper of an agent is evaluated on
    result      \* what that evaluation returned

vars == <<agents, phase, snakes, foods, steps, stateArg, log, kinds, nextMoves,
          listening, setups, teardowns, timer, keys, calls, probe, result>>

\* ------------------------------------------------------------------- types
Direction == {"up", "down", "left", "right"}

NoPoint == [x |-> 0 - 1, y |-> 0 - 1]

\* No helper is being evaluated.
NoProbe == [kind |-> "none"]

\* The log entry of a snake the map callback returned untouched.
NoLog == [asked |-> FALSE, move |-> "none", head |-> NoPoint, ate |-> FALSE,
          moved |-> FALSE, placed |-> NoPoint, covered |-> {}, available |-> {}]

\* ----------------------------------------------------------------- helpers
Opposite(d) ==
    CASE d = "up" -> "down"
      [] d = "down" -> "up"
      [] d = "left" -> "right"
      [] d = "right" -> "left"

\* Variant: the test compares the two headings themselves.
isValidTurnSameHeading(last, next) == last # next

isValidTurn(last, next) == last # Opposite(next)

\* Variant: no head ever counts as colliding.
isCollidingNever(head, body) == FALSE

isColliding(head, body) ==
    \E k \in 1..Len(body) : body[k].x = head.x /\ body[k].y = head.y

\* Variant: every position counts as on the board of ClaudeAgent.
onClaudeBoardAnywhere(position) == TRUE

\* Variant: every position counts as on the board.
isValidPositionAnywhere(position) == TRUE

isValidPosition(position) ==
    /\ position.x >= 0
    /\ position.x < BOARD_SIZE
    /\ position.y >= 0
    /\ position.y < BOARD_SIZE

\* The switch on newSnake.direction that moves the copied head.
nextHead(head, direction) ==
    CASE direction = "up" -> [head EXCEPT !.y = @ - 1]
      [] direction = "down" -> [head EXCEPT !.y = @ + 1]
      [] direction = "left" -> [head EXCEPT !.x = @ - 1]
      [] direction = "right" -> [head EXCEPT !.x = @ + 1]

\* `${x},${y}`: the key of a cell in the occupied set.
key(p) == <<p.x, p.y>>

\* Variant: the head segment of each body is left out of the occupied set.
occupiedWithoutHeads(snks) ==
    UNION {{key(snks[i].body[k]) : k \in 2..Len(snks[i].body)} : i \in 1..Len(snks)}

occupied(snks) ==
    UNION {{key(snks[i].body[k]) : k \in 1..Len(snks[i].body)} : i \in 1..Len(snks)}

choices ==
    [i \in 1..(BOARD_SIZE * BOARD_SIZE) |->
        [x |-> (i - 1) % BOARD_SIZE, y |-> (i - 1) \div BOARD_SIZE]]

availablePositions(snks) ==
    SelectSeq(choices, LAMBDA pos : key(pos) \notin occupied(snks))

\* Variant: with no position available any cell of the board is returned.
getNextFoodPositionAnyCell(snks) ==
    LET available == IF availablePositions(snks) = <<>> THEN choices
                     ELSE availablePositions(snks)
    IN  {available[randomIndex + 1] : randomIndex \in 0..(Len(available) - 1)}

\* The points getNextFoodPosition(snks) can return, one per value of
\* randomIndex; the empty set when it throws "No available positions".
getNextFoodPosition(snks) ==
    LET available == availablePositions(snks)
    IN  {available[randomIndex + 1] : randomIndex \in 0..(Len(available) - 1)}

\* newFoods.findIndex(food => food.x === p.x && food.y === p.y), 1-based;
\* 0 stands for the -1 of "not found".
findIndex(fs, p) ==
    IF \E k \in 1..Len(fs) : fs[k].x = p.x /\ fs[k].y = p.y
    THEN CHOOSE k \in 1..Len(fs) :
            /\ fs[k].x = p.x /\ fs[k].y = p.y
            /\ \A m \in 1..(k - 1) : ~(fs[m].x = p.x /\ fs[m].y = p.y)
    ELSE 0

\* Variant: the eaten food is not removed.
spliceNothing(fs, foodIndex) == fs

\* newFoods.splice(foodIndex, 1)
splice(fs, foodIndex) ==
    SubSeq(fs, 1, foodIndex - 1) \o SubSeq(fs, foodIndex + 1, Len(fs))

\* body.unshift(newHead) and body.pop()
unshift(body, newHead) == <<newHead>> \o body

\* Variant: body.shift() in place of body.pop().
shiftInsteadOfPop(body) == Tail(body)

pop(body) == SubSeq(body, 1, Len(body) - 1)

\* The headings agents[index].getMove(state, index) may return: the Agent
\* interface allows any Direction (RandomAgent returns each of them).
getMove(state, index) == Direction

\* KeyboardAgent.handleKeydown: the wish of a key, "none" for the null of a
\* key that is no arrow.
wish(eventKey) ==
    CASE eventKey = "ArrowUp" -> "up"
      [] eventKey = "ArrowDown" -> "down"
      [] eventKey = "ArrowLeft" -> "left"
      [] eventKey = "ArrowRight" -> "right"
      [] OTHER -> "none"

\* Variant: the handler pushes the wish in front of the buffer.
handleKeydownInFront(buffer, eventKey) ==
    IF wish(eventKey) # "none" THEN <<wish(eventKey)>> \o buffer ELSE buffer

\* KeyboardAgent.handleKeydown on the buffer this.nextMoves.
handleKeydown(buffer, eventKey) ==
    IF wish(eventKey) # "none" THEN Append(buffer, wish(eventKey)) ELSE buffer

\* this.nextMoves after KeyboardAgent.getMove: shift() on a buffer with
\* entries, nothing otherwise.
shift(buffer) == IF Len(buffer) > 0 THEN Tail(buffer) ELSE buffer

\* The heading KeyboardAgent.getMove returns for the buffer this.nextMoves.
KeyboardAgentGetMove(buffer, state, snake_idx) ==
    IF Len(buffer) > 0 THEN Head(buffer) ELSE state.snakes[snake_idx].direction

\* |a|
abs(a) == IF a < 0 THEN 0 - a ELSE a

\* Math.abs(a.x - b.x) + Math.abs(a.y - b.y)
manhattan(a, b) == abs(a.x - b.x) + abs(a.y - b.y)

\* Variant: the switch counts two quarter turns per period.
CircleAgentHalfTurns(state, snake_idx) ==
    IF ((state.steps \div CIRCLE_HOLD) % 2) = 0 THEN "up" ELSE "down"

\* CircleAgent.getMove: the switch on Math.floor(state.steps / 5) % 4.
CircleAgentGetMove(state, snake_idx) ==
    LET turn == (state.steps \div CIRCLE_HOLD) % 4
    IN  CASE turn = 0 -> "up"
          [] turn = 1 -> "right"
          [] turn = 2 -> "down"
          [] turn = 3 -> "left"
          [] OTHER -> state.snakes[snake_idx].direction

\* SimpleAgent.getMove, the loop over state.foods: the index of the first
\* food at the least distance from head, 0 when there is no food.
closestFoodIndex(head, fs) ==
    IF Len(fs) = 0 THEN 0
    ELSE CHOOSE k \in 1..Len(fs) :
            /\ \A m \in 1..Len(fs) : manhattan(head, fs[k]) <= manhattan(head, fs[m])
            /\ \A m \in 1..(k - 1) : manhattan(head, fs[m]) > manhattan(head, fs[k])

\* SimpleAgent.getMove, the four ifs that set wish: a later one overwrites
\* an earlier one; "none" is the null of a head on the food.
wishToward(head, closestFood) ==
    LET w1 == IF head.x < closestFood.x THEN "right" ELSE "none"
        w2 == IF head.x > closestFood.x THEN "left" ELSE w1
        w3 == IF head.y < closestFood.y THEN "down" ELSE w2
        w4 == IF head.y > closestFood.y THEN "up" ELSE w3
    IN  w4

\* Variant: the wish is returned as it is, reversal or not.
turnAwayNever(w, direction, head) == w

\* SimpleAgent.getMove, the turn away from the nearest wall when the wish is
\* the opposite of the heading (head.x < BOARD_SIZE / 2 is 2 * head.x <
\* BOARD_SIZE).
turnAway(w, direction, head) ==
    IF w # "none" /\ w = Opposite(direction)
    THEN IF w \in {"up", "down"}
         THEN IF 2 * head.x < BOARD_SIZE THEN "right" ELSE "left"
         ELSE IF 2 * head.y < BOARD_SIZE THEN "down" ELSE "up"
    ELSE w

SimpleAgentGetMove(state, snake_idx) ==
    LET snake == state.snakes[snake_idx]
        head == snake.body[1]
        closest == closestFoodIndex(head, state.foods)
    IN  IF closest = 0 THEN snake.direction
        ELSE LET w == turnAway(wishToward(head, state.foods[closest]), snake.direction, head)
             IN  IF w # "none" THEN w ELSE snake.direction

\* ------------------------------------------------ the planning agents
\* ClaudeAgent.getNextPosition(head, direction).
getNextPosition(head, direction) ==
    CASE direction = "up" -> [head EXCEPT !.y = @ - 1]
      [] direction = "down" -> [head EXCEPT !.y = @ + 1]
      [] direction = "left" -> [head EXCEPT !.x = @ - 1]
      [] direction = "right" -> [head EXCEPT !.x = @ + 1]

\* getPotentialHead(head, direction) of GeminiAgent.
getPotentialHead(head, direction) ==
    CASE direction = "up" -> [head EXCEPT !.y = @ - 1]
      [] direction = "down" -> [head EXCEPT !.y = @ + 1]
      [] direction = "left" -> [head EXCEPT !.x = @ - 1]
      [] direction = "right" -> [head EXCEPT !.x = @ + 1]

\* movePoint(point, direction) of ChatGPTAgent.
movePoint(point, direction) ==
    CASE direction = "up" -> [x |-> point.x, y |-> point.y - 1]
      [] direction = "down" -> [x |-> point.x, y |-> point.y + 1]
      [] direction = "left" -> [x |-> point.x - 1, y |-> point.y]
      [] direction = "right" -> [x |-> point.x + 1, y |-> point.y]

\* GrokAgent.movePoint(point, direction).
GrokAgentMovePoint(point, direction) ==
    CASE direction = "up" -> [x |-> point.x, y |-> point.y - 1]
      [] direction = "down" -> [x |-> point.x, y |-> point.y + 1]
      [] direction = "left" -> [x |-> point.x - 1, y |-> point.y]
      [] direction = "right" -> [x |-> point.x + 1, y |-> point.y]

\* MyAgent.computeNewHead(head, dir): up adds one to y, down takes one off.
computeNewHead(head, dir) ==
    CASE dir = "up" -> [x |-> head.x, y |-> head.y + 1]
      [] dir = "down" -> [x |-> head.x, y |-> head.y - 1]
      [] dir = "left" -> [x |-> head.x - 1, y |-> head.y]
      [] dir = "right" -> [x |-> head.x + 1, y |-> head.y]

\* ----------------------------------------------------------- ClaudeAgent
\* ClaudeAgent.getPossibleMoves(snake): up, down, left, right without the
\* opposite of the heading, in this order.
getPossibleMoves(snake) ==
    SelectSeq(<<"up", "down", "left", "right">>,
              LAMBDA dir : ~(\/ snake.direction = "up" /\ dir = "down"
                             \/ snake.direction = "down" /\ dir = "up"
                             \/ snake.direction = "left" /\ dir = "right"
                             \/ snake.direction = "right" /\ dir = "left"))

\* position is on the board of ClaudeAgent.
onClaudeBoard(position) ==
    /\ position.x >= 0
    /\ position.x < CLAUDE_BOARD_SIZE
    /\ position.y >= 0
    /\ position.y < CLAUDE_BOARD_SIZE

\* isAboutToEat: a food is on the head of the snake.
isAboutToEat(snake, fs) == \E f \in 1..Len(fs) : fs[f] = snake.body[1]

\* The segments of an alive snake the two scoring loops look at: all but
\* the last, and the last as well when the snake is about to eat.
solidSegments(snake, fs) ==
    {i \in 1..Len(snake.body) : i # Len(snake.body) \/ isAboutToEat(snake, fs)}

\* The cells these segments are on, over the alive snakes.
solidCells(state) ==
    UNION {{state.snakes[n].body[i] : i \in solidSegments(state.snakes[n], state.foods)} :
              n \in {m \in 1..Len(state.snakes) : state.snakes[m].alive}}

\* calculateSafetyScore(position, state, mySnake) times 10: 0, 1 (0.1),
\* 8 (0.8) or 10.
calculateSafetyScore(position, state, my_idx) ==
    LET mySnake == state.snakes[my_idx]
        rivals == {n \in 1..Len(state.snakes) :
                      /\ state.snakes[n].alive
                      /\ n # my_idx
                      /\ Len(state.snakes[n].body) >= Len(mySnake.body)}
        headToHead ==
            \E n \in rivals :
                \E k \in 1..Len(getPossibleMoves(state.snakes[n])) :
                    getNextPosition(state.snakes[n].body[1],
                                    getPossibleMoves(state.snakes[n])[k]) = position
        nearWall == \/ position.x <= 1
                    \/ position.x >= CLAUDE_BOARD_SIZE - 2
                    \/ position.y <= 1
                    \/ position.y >= CLAUDE_BOARD_SIZE - 2
    IN  IF ~onClaudeBoard(position) THEN 0
        ELSE IF position \in solidCells(state) THEN 0
        ELSE IF headToHead THEN 1
        ELSE IF nearWall THEN 8
        ELSE 10

\* calculateFoodScore(position, foods) as the fraction num / den: 0 / 1
\* without foods, 1 / 1 on a food, 1 / minDistance otherwise.
calculateFoodScore(position, fs) ==
    IF Len(fs) = 0 THEN [num |-> 0, den |-> 1]
    ELSE LET minDistance ==
                 CHOOSE d \in {manhattan(position, fs[f]) : f \in 1..Len(fs)} :
                     \A f \in 1..Len(fs) : d <= manhattan(position, fs[f])
         IN  IF minDistance = 0 THEN [num |-> 1, den |-> 1]
             ELSE [num |-> 1, den |-> minDistance]

\* The body of the while loop of calculateSpaceScore, on the queue, the
\* visited cells, the cells counted so far in the order they were counted
\* and the number of passes of the loop.  The passes that only drop a cell
\* off the board or visited from the front of the queue are taken together
\* with the pass that counts the cell after them: fresh is the place of
\* that cell in the queue.  Once the condition of the loop is false the
\* search stays as it is.
floodPass(search, position) ==
    LET queue == search.queue
        open(k) == onClaudeBoard(queue[k]) /\ queue[k] \notin search.visited
    IN  IF Len(queue) = 0 \/ Len(search.counted) >= MAX_SPACES
        THEN search
        ELSE IF \A k \in 1..Len(queue) : ~open(k)
        THEN [search EXCEPT !.queue = <<>>, !.passes = @ + Len(queue)]
        ELSE LET fresh == CHOOSE k \in 1..Len(queue) :
                              open(k) /\ \A m \in 1..(k - 1) : ~open(m)
                 current == queue[fresh]
                 rest == SubSeq(queue, fresh + 1, Len(queue))
             IN  [queue |-> IF manhattan(current, position) < maxDepth
                            THEN rest \o <<[x |-> current.x + 1, y |-> current.y],
                                           [x |-> current.x - 1, y |-> current.y],
                                           [x |-> current.x, y |-> current.y + 1],
                                           [x |-> current.x, y |-> current.y - 1]>>
                            ELSE rest,
                  visited |-> search.visited \cup {current},
                  counted |-> Append(search.counted, current),
                  passes |-> search.passes + fresh]

\* The while loop: count times the body, the second half of the passes
\* from the search the first half has left.
RECURSIVE floodFill(_, _, _)
floodFill(search, position, count) ==
    IF count = 0 THEN search
    ELSE IF count = 1 THEN floodPass(search, position)
    ELSE CHOOSE done \in {floodFill(half, position, count - (count \div 2)) :
                             half \in {floodFill(search, position, count \div 2)}} : TRUE

\* The search of calculateSpaceScore(position, state, mySnake): the loop
\* counts a cell in every pass that does not skip, so it has ended after
\* MAX_SPACES + 1 such passes.
spaceSearch(position, state) ==
    floodFill([queue |-> <<position>>, visited |-> solidCells(state),
               counted |-> <<>>, passes |-> 0], position, MAX_SPACES + 1)

\* Math.min(spaceCount / 64, 1) times 64.
spaceScore(spaceCount) == IF spaceCount < MAX_SPACES THEN spaceCount ELSE MAX_SPACES

calculateSpaceScore(position, state) ==
    spaceScore(Len(spaceSearch(position, state).counted))

\* totalScore of ClaudeAgent.getMove for one direction, safetyScore * 10 +
\* foodScore * 3 + spaceScore * 5, as the fraction num / den.
totalScore(state, your_snake_idx, direction) ==
    LET nextPos == getNextPosition(state.snakes[your_snake_idx].body[1], direction)
        safetyScore == calculateSafetyScore(nextPos, state, your_snake_idx)
        foodScore == calculateFoodScore(nextPos, state.foods)
        spaceCount == calculateSpaceScore(nextPos, state)
    IN  [num |-> (MAX_SPACES * safetyScore + 5 * spaceCount) * foodScore.den
                    + 3 * MAX_SPACES * foodScore.num,
         den |-> MAX_SPACES * foodScore.den]

\* b.score - a.score <= 0 for the scores of two moves.
notBelow(a, b) == a.num * b.den >= b.num * a.den

\* moveScores of ClaudeAgent.getMove: a direction and its score for each of
\* the possible moves.
moveScores(state, your_snake_idx) ==
    LET possibleMoves == getPossibleMoves(state.snakes[your_snake_idx])
    IN  {[direction |-> possibleMoves[k],
          score |-> totalScore(state, your_snake_idx, possibleMoves[k])] :
            k \in 1..Len(possibleMoves)}

\* Variant: the moves are sorted lowest score first.
firstOfLowestFirst(scored) ==
    {a.direction : a \in {c \in scored : \A b \in scored : notBelow(b.score, c.score)}}

\* The directions that can be first in moveScores after the sort, highest
\* score first.  The sort is stable, so of moves with the same scores the
\* first of possibleMoves comes first; scores that are equal as fractions
\* but come from different safety, food and space scores may differ in the
\* last bits of their floating-point sums, so any move of the highest
\* fraction may be the one returned.
firstOfSorted(scored) ==
    {a.direction : a \in {c \in scored : \A b \in scored : notBelow(c.score, b.score)}}

\* ClaudeAgent.getMove.
ClaudeAgentGetMove(state, your_snake_idx) ==
    LET mySnake == state.snakes[your_snake_idx]
    IN  IF ~mySnake.alive \/ Len(getPossibleMoves(mySnake)) = 0
        THEN {mySnake.direction}
        ELSE UNION {firstOfSorted(scored) : scored \in {moveScores(state, your_snake_idx)}}

\* An agent of the host page (the Agent interface is open): it reads its
\* head and follows the loop of its pair of columns, up the inner column and
\* down the outer one.  Two such agents on a 4 x 4 grid fill it.
LoopAgentGetMove(state, snake_idx) ==
    LET head == state.snakes[snake_idx].body[1]
        lane == head.x % 4
    IN  IF lane \in {1, 2}
        THEN IF head.y > 0 THEN "up" ELSE IF lane = 1 THEN "left" ELSE "right"
        ELSE IF head.y < BOARD_SIZE - 1 THEN "down"
             ELSE IF lane = 0 THEN "right" ELSE "left"

\* The headings agents[index].getMove(state, index) may return, by the class
\* of the agent; acc.nextMoves holds the key buffers as they are at the call.
answers(acc, index) ==
    CASE kinds[index] = "keyboard" ->
            {KeyboardAgentGetMove(acc.nextMoves[index], acc.state, index)}
      [] kinds[index] = "loop" -> {LoopAgentGetMove(acc.state, index)}
      [] kinds[index] = "circle" -> {CircleAgentGetMove(acc.state, index)}
      [] kinds[index] = "simple" -> {SimpleAgentGetMove(acc.state, index)}
      [] kinds[index] = "claude" -> ClaudeAgentGetMove(acc.state, index)
      [] OTHER -> getMove(acc.state, index)

\* The call agents[index].getMove(state, index) answered with move: what it
\* received is noted, and a KeyboardAgent has consumed its oldest entry.
called(acc, index, move) ==
    [acc EXCEPT !.calls = Append(@, [agent |-> index, index |-> index,
                                     state |-> acc.state, move |-> move]),
                !.nextMoves[index] = IF kinds[index] = "keyboard" THEN shift(@) ELSE @]

\* ---------------------------------------------------------------- the tick
\* The cells covered by the body arrays as they are at this instant.
covering(snks) ==
    UNION {{snks[i].body[k] : k \in 1..Len(snks[i].body)} : i \in 1..Len(snks)}

\* The map callback of step for one alive snake and one answer of its agent.
\* acc.state is the argument of step (its body arrays are the ones the
\* callback changes), acc.newSnakes the array map is building, acc.newFoods
\* the copy of state.foods.  The result is a set: one element per point the
\* food placement can return; a throw ends the call with acc.threw set.
moveSnake(acc, index, move) ==
    LET snake == acc.state.snakes[index]
        direction == IF isValidTurn(snake.direction, move) THEN move ELSE snake.direction
        newHead == nextHead(snake.body[1], direction)
        fits == isValidPosition(newHead) /\ ~isColliding(newHead, snake.body)
        body1 == IF fits THEN unshift(snake.body, newHead) ELSE snake.body
        state1 == [acc.state EXCEPT !.snakes[index].body = body1]
        foodIndex == findIndex(acc.newFoods, newHead)
        body2 == IF foodIndex # 0 THEN body1 ELSE pop(body1)
        state2 == [acc.state EXCEPT !.snakes[index].body = body2]
        newSnake == [body |-> body2, direction |-> direction, alive |-> fits]
        entry == [asked |-> TRUE, move |-> move, head |-> newHead,
                  ate |-> foodIndex # 0, moved |-> fits,
                  placed |-> NoPoint, covered |-> {}, available |-> {}]
    IN  IF foodIndex = 0
        THEN {[acc EXCEPT !.state = state2,
                          !.newSnakes = Append(@, newSnake),
                          !.log = Append(@, entry)]}
        ELSE IF getNextFoodPosition(state1.snakes) = {}
        THEN {[acc EXCEPT !.state = state1, !.threw = TRUE]}
        ELSE {[acc EXCEPT !.state = state1,
                          !.newSnakes = Append(@, newSnake),
                          !.newFoods = Append(splice(@, foodIndex), food),
                          !.log = Append(@, [entry EXCEPT !.placed = food,
                                                !.covered = covering(state1.snakes),
                                                !.available = getNextFoodPosition(state1.snakes)])]
                : food \in getNextFoodPosition(state1.snakes)}

\* Variant: the callback without its early return for dead snakes.
updateSnakeWithoutSkip(acc, index) ==
    UNION {moveSnake(called(acc, index, move), index, move) : move \in answers(acc, index)}

\* The map callback: a dead snake is returned as it is.
updateSnake(acc, index) ==
    IF ~acc.state.snakes[index].alive
    THEN {[acc EXCEPT !.newSnakes = Append(@, acc.state.snakes[index]),
                      !.log = Append(@, NoLog)]}
    ELSE UNION {moveSnake(called(acc, index, move), index, move) : move \in answers(acc, index)}

RECURSIVE mapSnakes(_, _)
mapSnakes(acc, index) ==
    IF acc.threw \/ index > Len(acc.state.snakes)
    THEN {acc}
    ELSE UNION {mapSnakes(a, index + 1) : a \in updateSnake(acc, index)}

\* Variant: the inner loop does not skip a dead snakeB.
RECURSIVE collideInnerWithDead(_, _, _)
collideInnerWithDead(s, i, j) ==
    IF j > Len(s) THEN s
    ELSE IF i = j THEN collideInnerWithDead(s, i, j + 1)
    ELSE LET s1 == IF isColliding(s[i].body[1], s[j].body)
                   THEN [s EXCEPT ![i].alive = FALSE] ELSE s
             s2 == IF isColliding(s[j].body[1], s[i].body)
                   THEN [s1 EXCEPT ![j].alive = FALSE] ELSE s1
         IN  collideInnerWithDead(s2, i, j + 1)

\* The inner loop of the collision pass, from j on, for snakeA = s[i].
RECURSIVE collideInner(_, _, _)
collideInner(s, i, j) ==
    IF j > Len(s) THEN s
    ELSE IF i = j \/ ~s[j].alive THEN collideInner(s, i, j + 1)
    ELSE LET s1 == IF isColliding(s[i].body[1], s[j].body)
                   THEN [s EXCEPT ![i].alive = FALSE] ELSE s
             s2 == IF isColliding(s[j].body[1], s[i].body)
                   THEN [s1 EXCEPT ![j].alive = FALSE] ELSE s1
         IN  collideInner(s2, i, j + 1)

\* The outer loop of the collision pass, from i on.
RECURSIVE collideOuter(_, _)
collideOuter(s, i) ==
    IF i > Len(s) THEN s
    ELSE IF ~s[i].alive THEN collideOuter(s, i + 1)
    ELSE collideOuter(collideInner(s, i, 1), i + 1)

\* Variant: no collision pass, the mapped snakes are returned as they are.
collisionPassNone(newSnakes) == newSnakes

collisionPass(newSnakes) == collideOuter(newSnakes, 1)

\* step(state): the set of outcomes of one call, one per combination of
\* agent answers and random draws.  An outcome holds the returned state
\* (unless threw), the argument as it reads after the call, and the log.
step(state) ==
    LET start == [state |-> state, newSnakes |-> <<>>, newFoods |-> state.foods,
                  log |-> <<>>, threw |-> FALSE, calls |-> <<>>,
                  nextMoves |-> nextMoves]
    IN  {[threw |-> acc.threw,
          calls |-> acc.calls,
          nextMoves |-> acc.nextMoves,
          snakes |-> collisionPass(acc.newSnakes),
          foods |-> acc.newFoods,
          steps |-> state.steps + 1,
          arg |-> acc.state,
          log |-> acc.log] : acc \in mapSnakes(start, 1)}

\* ----------------------------------------------------------------- actions
gameState == [snakes |-> snakes, foods |-> foods, steps |-> steps]

initialSnakes ==
    [index \in 1..agents |->
        [body |-> [i \in 1..STARTING_LENGTH |->
                      [x |-> (BOARD_SIZE \div (agents + 1)) * index,
                       y |-> BOARD_SIZE \div 2]],
         direction |-> "up",
         alive |-> TRUE]]

\* agent.setup && agent.setup(): of the classes here only KeyboardAgent
\* has the two hooks.
hasHooks(kind) == kind = "keyboard"

\* Variant: the cleanup of the second effect leaves the interval set.
keepInterval(interval) == interval

\* clearInterval(interval): the interval is no longer set.
clearInterval(interval) == FALSE

\* The component as constructed with this roster: useState's empty game
\* state, no effect run yet.
Component(roster) ==
    /\ agents = Len(roster)
    /\ kinds = roster
    /\ phase = "mounted"
    /\ snakes = <<>>
    /\ foods = <<>>
    /\ steps = 0
    /\ stateArg = [snakes |-> <<>>, foods |-> <<>>, steps |-> 0]
    /\ log = <<>>
    /\ nextMoves = [i \in 1..Len(roster) |-> <<>>]
    /\ listening = [i \in 1..Len(roster) |-> FALSE]
    /\ setups = [i \in 1..Len(roster) |-> 0]
    /\ teardowns = [i \in 1..Len(roster) |-> 0]
    /\ timer = FALSE
    /\ keys = <<>>
    /\ calls = <<>>

\* The component on its own: no function of an agent is evaluated apart
\* from the calls of step.
Mounted(roster) ==
    /\ Component(roster)
    /\ probe = NoProbe
    /\ result = NoProbe

\* A roster of 1..MaxAgents agents that may answer any heading (an empty
\* roster is replaced by four default agents, lines 193-199, which is a
\* roster of four).
Init == \E n \in 1..MaxAgents : Mounted([i \in 1..n |-> "random"])

\* The two effects of the mount: useEffect(setupGame, []) calls the setup
\* hooks and draws the snakes and the foods, the second effect sets the
\* interval.
setupGame ==
    /\ phase = "mounted"
    /\ setups' = [i \in 1..agents |-> IF hasHooks(kinds[i]) THEN setups[i] + 1 ELSE setups[i]]
    /\ listening' = [i \in 1..agents |-> hasHooks(kinds[i]) \/ listening[i]]
    /\ IF getNextFoodPosition(initialSnakes) = {}
       THEN /\ phase' = "crashed"
            /\ UNCHANGED <<snakes, foods, timer>>
       ELSE /\ phase' = "running"
            /\ snakes' = initialSnakes
            /\ foods' \in [1..INITIAL_FOODS -> getNextFoodPosition(initialSnakes)]
            /\ timer' = TRUE
    /\ steps' = 0
    /\ stateArg' = [snakes |-> snakes', foods |-> foods', steps |-> 0]
    /\ log' = [index \in 1..agents |-> NoLog]
    /\ UNCHANGED <<agents, kinds, nextMoves, teardowns, keys, calls, probe, result>>

\* The interval callback: setGameState((prevState) => step(prevState)).  A
\* throw of step leaves the game state as it was, but for the body arrays
\* step had changed by then, and ends the run.
callStep ==
    \E r \in step(gameState) :
        /\ stateArg' = r.arg
        /\ calls' = r.calls
        /\ nextMoves' = r.nextMoves
        /\ IF r.threw
           THEN /\ phase' = "crashed"
                /\ snakes' = r.arg.snakes
                /\ UNCHANGED <<foods, steps, log>>
           ELSE /\ phase' = phase
                /\ snakes' = r.snakes
                /\ foods' = r.foods
                /\ steps' = r.steps
                /\ log' = r.log
        /\ UNCHANGED <<agents, kinds, listening, setups, teardowns, timer, keys,
                       probe, result>>

\* Variant: the interval stops firing once no snake is alive.
intervalUntilAllDead ==
    /\ timer
    /\ phase \in {"running", "unmounted"}
    /\ \E i \in 1..Len(snakes) : snakes[i].alive

\* The interval fires: while it is set, and not after a throw.
intervalFires == timer /\ phase \in {"running", "unmounted"}

Tick ==
    /\ intervalFires
    /\ agents * steps < MaxUpdates
    /\ callStep

\* The same callback within the budget of the loop-following roster.
TickLoop ==
    /\ intervalFires
    /\ agents * steps < MaxLoopUpdates
    /\ callStep

\* The keys of the keydown events: the four arrows and one other key.
Keys == {"ArrowUp", "ArrowDown", "ArrowLeft", "ArrowRight", "Enter"}

\* A keydown event on the window: every registered handleKeydown runs.
KeyDown ==
    /\ Len(keys) < MaxKeys
    /\ \E eventKey \in Keys :
        /\ keys' = Append(keys, eventKey)
        /\ nextMoves' = [i \in 1..agents |->
                            IF listening[i] THEN handleKeydown(nextMoves[i], eventKey)
                            ELSE nextMoves[i]]
    /\ UNCHANGED <<agents, phase, snakes, foods, steps, stateArg, log, kinds,
                   listening, setups, teardowns, timer, calls, probe, result>>

\* The component is unmounted: the cleanup setupGame returned calls the
\* teardown hooks, the cleanup of the second effect clears the interval.
Teardown ==
    /\ phase \in {"running", "crashed"}
    /\ timer
    /\ phase' = "unmounted"
    /\ teardowns' = [i \in 1..agents |->
                        IF hasHooks(kinds[i]) THEN teardowns[i] + 1 ELSE teardowns[i]]
    /\ listening' = [i \in 1..agents |-> listening[i] /\ ~hasHooks(kinds[i])]
    /\ timer' = clearInterval(timer)
    /\ UNCHANGED <<agents, snakes, foods, steps, stateArg, log, kinds, nextMoves,
                   setups, keys, calls, probe, result>>

Next == setupGame \/ Tick

Spec == Init /\ [][Next]_vars

\* A KeyboardAgent on its own, with key presses and the unmount.
InitLife == Mounted(<<"keyboard">>)

NextLife == setupGame \/ Tick \/ KeyDown \/ Teardown

SpecLife == InitLife /\ [][NextLife]_vars

\* Two loop-following agents, until their bodies cover the grid.
InitLoop == Mounted(<<"loop", "loop">>)

NextLoop == setupGame \/ TickLoop

SpecLoop == InitLoop /\ [][NextLoop]_vars

\* The same callback within the budget of the built-in agents.
TickAgents ==
    /\ intervalFires
    /\ agents * steps < MaxAgentUpdates
    /\ callStep

\* The rosters of built-in agents explored.
Rosters == {<<"simple">>, <<"circle">>, <<"simple", "circle">>, <<"circle", "simple">>}

InitAgents == \E roster \in Rosters : Mounted(roster)

NextAgents == setupGame \/ TickAgents

SpecAgents == InitAgents /\ [][NextAgents]_vars

\* ------------------------------------------- the geometry of the agents
\* The classes of agents that compute the cell a heading leads to.
Planners == {"ClaudeAgent", "GeminiAgent", "ChatGPTAgent", "GrokAgent", "MyAgent"}

\* The cell the agent of this class takes for the head of its snake.
headOf(agent, body) ==
    IF agent = "GrokAgent" THEN body[Len(body)] ELSE body[1]

\* The cell the agent of this class evaluates for heading d of its snake.
plannedHead(agent, body, d) ==
    CASE agent = "ClaudeAgent" -> getNextPosition(headOf(agent, body), d)
      [] agent = "GeminiAgent" -> getPotentialHead(headOf(agent, body), d)
      [] agent = "ChatGPTAgent" -> movePoint(headOf(agent, body), d)
      [] agent = "GrokAgent" -> GrokAgentMovePoint(headOf(agent, body), d)
      [] agent = "MyAgent" -> computeNewHead(headOf(agent, body), d)

\* The bodies of the geometry probes: MaxProbeLen cells of the board, each
\* on the cell before it or beside it.
ProbeBodies ==
    {body \in [1..MaxProbeLen -> {choices[i] : i \in 1..Len(choices)}] :
        \A k \in 1..(MaxProbeLen - 1) : manhattan(body[k], body[k + 1]) <= 1}

\* An agent class, a body and a heading are drawn ...
InitGeometry ==
    /\ Component(<<>>)
    /\ \E agent \in Planners, body \in ProbeBodies, d \in Direction :
          probe = [kind |-> "geometry", agent |-> agent, body |-> body, heading |-> d]
    /\ result = NoProbe

\* ... and the cell the agent evaluates is set beside the cell step moves
\* the head to.
EvaluateGeometry ==
    /\ probe.kind = "geometry"
    /\ result = NoProbe
    /\ result' = [kind |-> "geometry",
                  planned |-> plannedHead(probe.agent, probe.body, probe.heading),
                  stepped |-> nextHead(probe.body[1], probe.heading)]
    /\ UNCHANGED <<agents, phase, snakes, foods, steps, stateArg, log, kinds,
                   nextMoves, listening, setups, teardowns, timer, keys, calls, probe>>

NextGeometry == EvaluateGeometry

SpecGeometry == InitGeometry /\ [][NextGeometry]_vars

\* -------------------------------------------- the flood fill on its own
\* The bodies of STARTING_LENGTH segments on the board as step leaves them:
\* each segment beside the one before it, or on it from the first of the
\* segments still stacked on the spawn cell to the tail.
Bodies ==
    {body \in [1..STARTING_LENGTH -> {choices[i] : i \in 1..Len(choices)}] :
        /\ \A k \in 1..(STARTING_LENGTH - 1) : manhattan(body[k], body[k + 1]) <= 1
        /\ \A a, b \in 1..STARTING_LENGTH :
              (a < b /\ body[a] = body[b]) =>
                  \A k \in a..STARTING_LENGTH : body[k] = body[a]}

\* A game state of one snake, alive or dead, with a food on its head or
\* without foods, and a candidate cell: a cell beside the head or a cell of
\* the body.
InitFlood ==
    /\ Component(<<>>)
    /\ \E body \in Bodies, alive \in BOOLEAN, eats \in BOOLEAN :
          \E position \in {nextHead(body[1], h) : h \in Direction}
                              \cup {body[k] : k \in 1..Len(body)} :
              probe = [kind |-> "flood",
                       state |-> [snakes |-> <<[body |-> body, direction |-> "up",
                                                alive |-> alive]>>,
                                  foods |-> IF eats THEN <<body[1]>> ELSE <<>>,
                                  steps |-> 0],
                       position |-> position]
    /\ result = NoProbe

\* calculateSpaceScore(position, state, mySnake) is evaluated.
EvaluateFlood ==
    /\ probe.kind = "flood"
    /\ result = NoProbe
    /\ result' = [kind |-> "flood",
                  search |-> spaceSearch(probe.position, probe.state),
                  score |-> calculateSpaceScore(probe.position, probe.state)]
    /\ UNCHANGED <<agents, phase, snakes, foods, steps, stateArg, log, kinds,
                   nextMoves, listening, setups, teardowns, timer, keys, calls, probe>>

NextFlood == EvaluateFlood

SpecFlood == InitFlood /\ [][NextFlood]_vars

\* The same callback within the budget of the rosters with a ClaudeAgent.
TickClaude ==
    /\ intervalFires
    /\ agents * steps < MaxClaudeUpdates
    /\ callStep

\* ClaudeAgent on its own and with one of its kind.
InitClaude ==
    \E roster \in {<<"claude">>, <<"claude", "claude">>} : Mounted(roster)

NextClaude == setupGame \/ TickClaude

SpecClaude == InitClaude /\ [][NextClaude]_vars

\* setupGame alone, for rosters up to MaxRoster agents.
InitSetup == \E n \in 1..MaxRoster : Mounted([i \in 1..n |-> "random"])

NextSetup == setupGame

SpecSetup == InitSetup /\ [][NextSetup]_vars

\* ------------------------------------------------------------------ claims
\* A step of the behaviour that is a call of step which returned a state.
Returned == phase = "running" /\ phase' = "running" /\ steps' = steps + 1

\* A step of the behaviour that is a call of step, returned or thrown.
Called == phase = "running" /\ (steps' = steps + 1 \/ phase' = "crashed")

SnakeIds == 1..Len(snakes)

\* The unit vector of a heading, in grid coordinates (y grows downwards).
unitX(d) == IF d = "right" THEN 1 ELSE IF d = "left" THEN 0 - 1 ELSE 0

unitY(d) == IF d = "down" THEN 1 ELSE IF d = "up" THEN 0 - 1 ELSE 0

plus(p, d) == [x |-> p.x + unitX(d), y |-> p.y + unitY(d)]

\* C1: in every tick, for every snake alive at its start with heading d whose
\* agent answers h, the heading step uses is d when h is the reversal of d and
\* h otherwise, and the new head is never the cell behind the old head.
C1_ReversalRejected ==
    [][Returned =>
        \A i \in SnakeIds : snakes[i].alive =>
            LET d == snakes[i].direction
                h == log'[i].move
                used == snakes'[i].direction
            IN  /\ log'[i].asked
                /\ h \in Direction
                /\ used = (IF h = Opposite(d) THEN d ELSE h)
                /\ log'[i].head = plus(snakes[i].body[1], used)
                /\ log'[i].head # plus(snakes[i].body[1], Opposite(d))]_vars

\* C1 witness: an agent asked for the reversal of its snake's heading.
C1_Witness ==
    /\ phase = "running" /\ steps > 0
    /\ \E i \in SnakeIds : log[i].asked /\ log[i].move = Opposite(snakes[i].direction)

\* C2: after a tick, for every ordered pair of distinct snakes that both
\* survived their own move, if the head of the first lies on the body of the
\* second then the first is dead.
C2_CrossCollisionKills ==
    (phase = "running" /\ steps > 0) =>
        \A i, j \in SnakeIds :
            (i # j /\ log[i].moved /\ log[j].moved
                   /\ isColliding(snakes[i].body[1], snakes[j].body))
                => ~snakes[i].alive

\* C3: after a tick, two snakes that both survived their own move and whose
\* heads are on the same cell, or whose heads have swapped cells, are both dead.
C3_HeadToHeadKillsBoth ==
    (phase = "running" /\ steps > 0) =>
        \A i, j \in SnakeIds :
            (i # j /\ log[i].moved /\ log[j].moved
                   /\ \/ snakes[i].body[1] = snakes[j].body[1]
                      \/ /\ snakes[i].body[1] = snakes[j].body[2]
                         /\ snakes[j].body[1] = snakes[i].body[2])
                => (~snakes[i].alive /\ ~snakes[j].alive)

\* The half of C3 about heads on the same cell.
SameCellKillsBoth ==
    (phase = "running" /\ steps > 0) =>
        \A i, j \in SnakeIds :
            (i # j /\ log[i].moved /\ log[j].moved
                   /\ snakes[i].body[1] = snakes[j].body[1])
                => (~snakes[i].alive /\ ~snakes[j].alive)

\* C4: a dead snake stays as it is: no step of the program changes the
\* alive flag, the body or the heading of a snake that is dead.
C4_DeadIsFrozen ==
    [][\A i \in SnakeIds : ~snakes[i].alive =>
            /\ i \in 1..Len(snakes')
            /\ snakes'[i] = snakes[i]]_vars

\* C4 witness: a snake that was already dead when the last tick began.
C4_Witness ==
    /\ phase = "running" /\ steps > 1
    /\ \E i \in SnakeIds : ~snakes[i].alive /\ ~log[i].asked

\* C5: in every tick the length of every body does not decrease, grows by
\* exactly one exactly when the snake's new head is on a food cell, and is
\* unchanged otherwise.
C5_LengthLaw ==
    [][Returned =>
        \A i \in SnakeIds :
            LET before == Len(snakes[i].body)
                after == Len(snakes'[i].body)
            IN  /\ after >= before
                /\ (after = before + 1) <=> log'[i].ate
                /\ ~log'[i].ate => after = before]_vars

\* C6: after setup the food count is the number setup draws, and every
\* returned tick leaves it as it was.
C6_FoodCount ==
    phase = "running" => Len(foods) = INITIAL_FOODS

\* C6 witness: two snakes ate in the same tick.
C6_Witness ==
    /\ phase = "running" /\ steps > 0
    /\ \E i, j \in SnakeIds : i < j /\ log[i].ate /\ log[j].ate

\* C7: a food point is never created on a cell of a snake body: not at
\* setup, and not in a tick, where the bodies are the arrays as they are at
\* the instant of placement (the eater's new head and the moves of the snakes
\* before it included).
C7_FoodAvoidsSnakes ==
    /\ (phase = "running" /\ steps = 0) =>
            \A k \in 1..Len(foods) : \A i \in SnakeIds : ~isColliding(foods[k], snakes[i].body)
    /\ (phase = "running" /\ steps > 0) =>
            \A i \in SnakeIds : log[i].placed # NoPoint =>
                /\ log[i].placed \notin log[i].covered
                /\ log[i].placed # log[i].head

\* C7 witness: a replacement was placed for a snake after an earlier snake
\* had moved in the same tick.
C7_Witness ==
    /\ phase = "running" /\ steps > 0
    /\ \E i \in SnakeIds : i > 1 /\ log[i].placed # NoPoint /\ log[1].moved

\* C8: when the new head of an alive snake lands on food, after the tick the
\* food count is unchanged, the body is one longer and no food is on the
\* consumed cell.
C8_Eating ==
    [][Returned =>
        \A i \in SnakeIds : (snakes[i].alive /\ log'[i].ate) =>
            /\ Len(foods') = Len(foods)
            /\ Len(snakes'[i].body) = Len(snakes[i].body) + 1
            /\ \A k \in 1..Len(foods') : foods'[k] # log'[i].head]_vars

\* C9: a snake alive before and after a tick that does not eat has as its new
\* body the new head (old head plus the unit vector of the accepted heading)
\* followed by the old body without its last cell.
C9_PlainMove ==
    [][Returned =>
        \A i \in SnakeIds : (snakes[i].alive /\ snakes'[i].alive /\ ~log'[i].ate) =>
            LET old == snakes[i].body
                newHead == plus(old[1], snakes'[i].direction)
            IN  /\ snakes'[i].body = <<newHead>> \o SubSeq(old, 1, Len(old) - 1)
                /\ Len(snakes'[i].body) = Len(old)]_vars

\* C9 witness: a length-3 snake heading right that has just moved one cell to
\* the right without eating.
C9_Witness ==
    /\ phase = "running" /\ steps > 0
    /\ \E i \in SnakeIds :
        /\ snakes[i].alive /\ log[i].asked /\ ~log[i].ate
        /\ snakes[i].direction = "right"
        /\ Len(snakes[i].body) = STARTING_LENGTH
        /\ snakes[i].body[1].x = snakes[i].body[2].x + 1
        /\ snakes[i].body[1].y = snakes[i].body[2].y

\* C10: a call of step leaves its argument as it was: after the call the
\* object passed in reads exactly as the game state did before the call.
C10_ArgumentUntouched ==
    [][Called => stateArg' = gameState]_vars


\* The cells of the board.
AllCells == {choices[i] : i \in 1..Len(choices)}

aliveIds(snks) == SelectSeq([i \in 1..Len(snks) |-> i], LAMBDA i : snks[i].alive)

\* The snake indices the getMove calls of the last call of step were made
\* with, in the order of the calls.
queried == [k \in 1..Len(calls) |-> calls[k].index]

\* C12 as stated: in every tick getMove is invoked exactly once per snake
\* alive at the start of the tick, in increasing index order, with the
\* snake's own index, and never for a dead snake.
C12_QueryDiscipline ==
    [][Called =>
        /\ queried' = aliveIds(snakes)
        /\ \A k \in 1..Len(calls') : calls'[k].agent = calls'[k].index
        /\ \A i \in SnakeIds : ~snakes[i].alive => nextMoves'[i] = nextMoves[i]]_vars

\* C12 amended: the discipline holds in every tick that returns a state; a
\* tick that ends in the throw of the food placement has queried, once each
\* and in increasing order, the alive snakes up to the one whose placement
\* failed and none after it.  No call is made for a dead snake, and the
\* buffer of an agent that was not called is not consumed.
C12_QueryDisciplineUntilThrow ==
    [][Called =>
        /\ Returned => queried' = aliveIds(snakes)
        /\ phase' = "crashed" =>
            /\ Len(queried') > 0
            /\ Len(queried') <= Len(aliveIds(snakes))
            /\ queried' = SubSeq(aliveIds(snakes), 1, Len(queried'))
        /\ \A k \in 1..Len(calls') : calls'[k].agent = calls'[k].index
        /\ \A i \in SnakeIds :
            (\A k \in 1..Len(calls') : calls'[k].agent # i) => nextMoves'[i] = nextMoves[i]]_vars

\* A tick that threw at the first snake while the second, alive, was never
\* asked.
C12_Witness ==
    /\ phase = "crashed"
    /\ Len(snakes) = 2
    /\ snakes[2].alive
    /\ queried = <<1>>

\* A tick with a dead snake went by and its agent was not asked.
C12_DeadNotAsked ==
    /\ phase = "running"
    /\ \E i \in SnakeIds : ~snakes[i].alive /\ ~log[i].asked /\ \E j \in SnakeIds : log[j].asked


\* The agents of the roster that have the setup and teardown hooks.
Hooked == {i \in 1..agents : hasHooks(kinds[i])}

\* C13: each agent's setup hook has been called exactly once from the mount
\* on (so before the first tick) and never before, its teardown hook
\* exactly once from the unmount on and never before; the unmount clears
\* the interval, and after it no call of step and no getMove call is made.
C13_Lifecycle ==
    /\ [](\A i \in Hooked :
            /\ setups[i] = IF phase = "mounted" THEN 0 ELSE 1
            /\ teardowns[i] = IF phase = "unmounted" THEN 1 ELSE 0
            /\ listening[i] <=> phase \in {"running", "crashed"})
    /\ []((steps > 0 \/ calls # <<>>) => \A i \in Hooked : setups[i] = 1)
    /\ [](phase = "unmounted" => ~timer)
    /\ [][phase = "unmounted" =>
            /\ phase' = "unmounted"
            /\ UNCHANGED <<snakes, foods, steps, stateArg, log, calls, setups, teardowns>>]_vars

\* The component was unmounted after some ticks, with a key press after it.
C13_Witness ==
    /\ phase = "unmounted"
    /\ steps > 1
    /\ Hooked # {}
    /\ \A i \in Hooked : teardowns[i] = 1 /\ setups[i] = 1
    /\ keys # <<>>


\* The agents that are KeyboardAgents between their setup and teardown.
KeyboardWindow == {i \in 1..agents : kinds[i] = "keyboard" /\ setups[i] = 1 /\ teardowns[i] = 0}

\* The heading of an arrow key.
Arrow == [ArrowUp |-> "up", ArrowDown |-> "down", ArrowLeft |-> "left", ArrowRight |-> "right"]

\* C14: a key press appends the heading of an arrow key to the buffer of a
\* KeyboardAgent between its setup and teardown, and changes no buffer
\* otherwise; a getMove call of a KeyboardAgent returns and removes the
\* oldest buffered heading, or returns the snake's current heading and
\* leaves the buffer empty; nothing else changes a buffer.
C14_KeyboardFifo ==
    [][/\ keys' # keys =>
            LET eventKey == keys'[Len(keys')]
            IN  \A i \in 1..agents :
                    nextMoves'[i] =
                        IF i \in KeyboardWindow /\ eventKey \in DOMAIN Arrow
                        THEN Append(nextMoves[i], Arrow[eventKey])
                        ELSE nextMoves[i]
       /\ Called =>
            /\ \A k \in 1..Len(calls') :
                LET i == calls'[k].agent
                IN  kinds[i] = "keyboard" =>
                        IF nextMoves[i] # <<>>
                        THEN /\ calls'[k].move = Head(nextMoves[i])
                             /\ nextMoves'[i] = Tail(nextMoves[i])
                        ELSE /\ calls'[k].move = snakes[calls'[k].index].direction
                             /\ nextMoves'[i] = <<>>
            /\ \A i \in 1..agents :
                Cardinality({k \in 1..Len(calls') : calls'[k].agent = i}) <= 1
       /\ (keys' = keys /\ ~Called) => nextMoves' = nextMoves]_vars

\* Two different arrow keys were pressed in the window and a tick has asked
\* for the first of them, leaving the second in the buffer.
C14_Witness ==
    /\ Len(keys) = 2
    /\ keys[1] \in DOMAIN Arrow
    /\ keys[2] \in DOMAIN Arrow
    /\ keys[1] # keys[2]
    /\ KeyboardWindow = {1}
    /\ Len(calls) = 1
    /\ calls[1].move = Arrow[keys[1]]
    /\ nextMoves[1] = <<Arrow[keys[2]]>>


\* C15 as stated: after a tick, a snake that moved its head onto a cell of
\* the body of a snake that was dead before the tick, or died of the wall or
\* of itself in the tick, is dead.
C15_DeadSnakesKill ==
    (phase = "running" /\ steps > 0) =>
        \A i, j \in SnakeIds :
            (i # j /\ log[i].moved /\ ~log[j].moved
                   /\ isColliding(log[i].head, snakes[j].body)) => ~snakes[i].alive

\* C15 amended: a dead snake stays in the state, but the collision pass
\* passes it over: a snake that moved is dead after the tick only if its
\* head lies on the body of another snake that moved in this tick; the body
\* of a snake that did not (dead before, or dead of the wall or of itself)
\* kills nobody.
C15_DeadSnakesKillNobody ==
    (phase = "running" /\ steps > 0) =>
        /\ Len(snakes) = agents
        /\ \A i \in SnakeIds :
            (/\ log[i].moved
             /\ \A j \in SnakeIds :
                    (j # i /\ log[j].moved) => ~isColliding(log[i].head, snakes[j].body))
                => snakes[i].alive

\* A snake alive after the tick that put its head on a dead snake's body.
C15_Witness ==
    /\ phase = "running"
    /\ \E i, j \in SnakeIds :
        /\ i # j
        /\ log[i].moved
        /\ snakes[i].alive
        /\ ~snakes[j].alive
        /\ ~log[j].moved
        /\ isColliding(snakes[i].body[1], snakes[j].body)


AllDead == \A i \in SnakeIds : ~snakes[i].alive

C17_DeathInPlace ==
    [][Returned =>
        \A i \in SnakeIds :
            (snakes[i].alive /\ ~log'[i].moved) =>
                /\ ~snakes'[i].alive
                /\ snakes'[i].body = snakes[i].body]_vars


\* C18: when a snake eats, the cells the new food cannot be drawn from are
\* the body cells of the state at the start of the tick, and every other
\* cell of the board can be drawn.
C18_OccupancyPreMove ==
    [][Returned =>
        \A i \in SnakeIds :
            log'[i].placed # NoPoint =>
                log'[i].available = AllCells \ covering(snakes)]_vars

\* The occupancy the code uses: the body arrays as they are when the food
\* is placed, with the heads added and the tails removed so far in the tick.
OccupancyAtPlacement ==
    [][Returned =>
        \A i \in SnakeIds :
            log'[i].placed # NoPoint =>
                /\ log'[i].available = AllCells \ log'[i].covered
                /\ log'[i].head \in log'[i].covered]_vars


\* C19: every getMove call of a tick receives the game state as it stood at
\* the start of the tick, whatever was done for the snakes of lower index.
C19_SameStateForAll ==
    [][Called => \A k \in 1..Len(calls') : calls'[k].state = gameState]_vars

\* What the calls do receive: the foods, the step counter, the headings and
\* the alive flags of the start of the tick, and the own body unmoved.
SeenAtCall ==
    [][Called =>
        \A k \in 1..Len(calls') :
            LET seen == calls'[k].state
                i == calls'[k].index
            IN  /\ seen.foods = foods
                /\ seen.steps = steps
                /\ Len(seen.snakes) = Len(snakes)
                /\ seen.snakes[i] = snakes[i]
                /\ \A j \in SnakeIds :
                    /\ seen.snakes[j].direction = snakes[j].direction
                    /\ seen.snakes[j].alive = snakes[j].alive
                    /\ j > i => seen.snakes[j] = snakes[j]]_vars


\* C20: the state setupGame creates has one snake per agent, each alive,
\* with STARTING_LENGTH segments on the grid, different snakes on different
\* cells, the initial number of foods, none on a snake cell, and step
\* counter 0, whatever the size of the roster.
C20_InitialState ==
    (phase = "running" /\ steps = 0) =>
        /\ Len(snakes) = agents
        /\ \A i \in SnakeIds :
            /\ snakes[i].alive
            /\ Len(snakes[i].body) = STARTING_LENGTH
            /\ \A k \in 1..Len(snakes[i].body) : isValidPosition(snakes[i].body[k])
        /\ \A i, j \in SnakeIds :
            i # j => covering(<<snakes[i]>>) \cap covering(<<snakes[j]>>) = {}
        /\ Len(foods) = INITIAL_FOODS
        /\ \A k \in 1..Len(foods) : foods[k] \notin covering(snakes)

\* The same without the demand that different snakes lie on different cells.
InitialStateButOverlap ==
    (phase = "running" /\ steps = 0) =>
        /\ Len(snakes) = agents
        /\ \A i \in SnakeIds :
            /\ snakes[i].alive
            /\ Len(snakes[i].body) = STARTING_LENGTH
            /\ \A k \in 1..Len(snakes[i].body) : isValidPosition(snakes[i].body[k])
        /\ Len(foods) = INITIAL_FOODS
        /\ \A k \in 1..Len(foods) : foods[k] \notin covering(snakes)


\* The calls of the last call of step made to agents of this class.
CallsOf(kind) == {k \in 1..Len(calls) : kinds[calls[k].agent] = kind}

\* The cells holding the foods nearest to p.
nearestFoods(p, fs) ==
    {fs[k] : k \in {k \in 1..Len(fs) : \A m \in 1..Len(fs) : manhattan(p, fs[k]) <= manhattan(p, fs[m])}}

\* The heading along the axis of the larger offset, toward food f from p.
largerAxis(p, f) ==
    IF abs(f.x - p.x) > abs(f.y - p.y)
    THEN IF f.x > p.x THEN "right" ELSE "left"
    ELSE IF f.y > p.y THEN "down" ELSE "up"

\* C21: when one cell holds the nearest food and its offsets (dx, dy) from
\* the head differ in size, SimpleAgent asks for the heading along the axis
\* of the larger offset toward the food, or, when that is the reversal of
\* the snake's heading, for the perpendicular heading away from the nearer
\* wall.
C21_GreedyLargerAxis ==
    \A k \in CallsOf("simple") :
        LET seen == calls[k].state
            me == seen.snakes[calls[k].index]
            head == me.body[1]
            near == nearestFoods(head, seen.foods)
        IN  \A f \in near :
                (Cardinality(near) = 1 /\ abs(f.x - head.x) # abs(f.y - head.y)) =>
                    calls[k].move =
                        IF largerAxis(head, f) # Opposite(me.direction)
                        THEN largerAxis(head, f)
                        ELSE IF largerAxis(head, f) \in {"up", "down"}
                             THEN IF 2 * head.x < BOARD_SIZE THEN "right" ELSE "left"
                             ELSE IF 2 * head.y < BOARD_SIZE THEN "down" ELSE "up"

\* What SimpleAgent asks for: the vertical heading toward the nearest food
\* whenever the food is on another row, the horizontal one only on the
\* food's row, with the same turn away from a reversal.
GreedyVerticalFirst ==
    \A k \in CallsOf("simple") :
        LET seen == calls[k].state
            me == seen.snakes[calls[k].index]
            head == me.body[1]
            near == nearestFoods(head, seen.foods)
        IN  \A f \in near :
                (Cardinality(near) = 1 /\ f # head) =>
                    LET toward == IF f.y > head.y THEN "down"
                                  ELSE IF f.y < head.y THEN "up"
                                  ELSE IF f.x > head.x THEN "right" ELSE "left"
                    IN  calls[k].move =
                            IF toward # Opposite(me.direction) THEN toward
                            ELSE IF toward \in {"up", "down"}
                                 THEN IF 2 * head.x < BOARD_SIZE THEN "right" ELSE "left"
                                 ELSE IF 2 * head.y < BOARD_SIZE THEN "down" ELSE "up"

\* The heading the snake of a call had when its agent was asked.
headingAt(k) == calls[k].state.snakes[calls[k].index].direction

\* C29: SimpleAgent.getMove never returns the opposite of the heading of its
\* snake, whatever the state (the wish, the turn away from the wall, or the
\* heading itself), so the heading of its snake after the tick is the one
\* it asked for.
C29_SimpleNeverReverses ==
    /\ \A k \in CallsOf("simple") :
          /\ calls[k].move # Opposite(headingAt(k))
          /\ isValidTurn(headingAt(k), calls[k].move)
    /\ phase = "running" =>
          \A i \in 1..Len(log) :
              (kinds[i] = "simple" /\ log[i].asked) => snakes[i].direction = log[i].move

\* A call in which the nearest food lay behind the head: the wish was the
\* reversal and the agent answered with the perpendicular heading.
C29_Witness ==
    /\ phase = "running"
    /\ \E k \in CallsOf("simple") :
          LET s == calls[k].state
              head == s.snakes[calls[k].index].body[1]
              closest == closestFoodIndex(head, s.foods)
          IN  /\ closest # 0
              /\ wishToward(head, s.foods[closest]) = Opposite(headingAt(k))
              /\ calls[k].move \notin {headingAt(k), Opposite(headingAt(k))}
              /\ snakes[calls[k].index].direction = calls[k].move

\* A call in which the head was on the nearest food, or no food existed.
SimpleKeepsHeading ==
    \E k \in CallsOf("simple") :
        LET s == calls[k].state
            head == s.snakes[calls[k].index].body[1]
        IN  /\ \E f \in 1..Len(s.foods) : s.foods[f] = head
            /\ calls[k].move = headingAt(k)

\* The headings of the fixed pattern, by quarter turn.
pattern(turn) == <<"up", "right", "down", "left">>[turn + 1]

\* C26: the heading CircleAgent asks for is up, right, down, left by
\* floor(steps / period) mod 4 and nothing else; in a run from setupGame it
\* is never the opposite of the heading of its snake, so the heading of the
\* snake after the tick is the one asked for.
C26_CirclePattern ==
    /\ \A k \in CallsOf("circle") :
          /\ calls[k].move = pattern((calls[k].state.steps \div CIRCLE_HOLD) % 4)
          /\ calls[k].move # Opposite(headingAt(k))
    /\ phase = "running" =>
          \A i \in 1..Len(log) :
              (kinds[i] = "circle" /\ log[i].asked) => snakes[i].direction = log[i].move

\* A CircleAgent asked in its second round of the pattern, its snake alive
\* after the tick and heading where it was asked to.
C26_Witness ==
    /\ phase = "running"
    /\ \E k \in CallsOf("circle") :
          /\ calls[k].state.steps >= 4 * CIRCLE_HOLD
          /\ snakes[calls[k].index].alive
          /\ snakes[calls[k].index].direction = calls[k].move

\* C25: the food points are pairwise distinct cells in every state.
C25_FoodsDistinct ==
    \A a, b \in 1..Len(foods) : a # b => foods[a] # foods[b]

\* The cells of a body.
cells(body) == {body[k] : k \in 1..Len(body)}

\* The snakes of setupGame are on pairwise distinct cells.
SpawnsDistinct ==
    \A i, j \in 1..agents :
        i # j => cells(initialSnakes[i].body) \cap cells(initialSnakes[j].body) = {}

\* C27: when the snakes of setupGame are on distinct cells, after setup and
\* after every call of step that returned no cell belongs to the bodies of
\* two different snakes that are both alive.
C27_AliveSnakesDisjoint ==
    (SpawnsDistinct /\ phase = "running") =>
        \A i, j \in SnakeIds :
            (i # j /\ snakes[i].alive /\ snakes[j].alive) =>
                cells(snakes[i].body) \cap cells(snakes[j].body) = {}

\* A tick in which a snake moved its head onto the body of another snake
\* and the collision pass killed it, the other snake staying alive.
C27_Witness ==
    /\ SpawnsDistinct
    /\ phase = "running"
    /\ steps > 0
    /\ \E i, j \in SnakeIds :
          /\ i # j
          /\ log[i].moved
          /\ ~snakes[i].alive
          /\ snakes[j].alive
          /\ isColliding(snakes[i].body[1], snakes[j].body)

\* C28: every body cell of every snake, alive or dead, and every food point
\* is on the board, and a head that step added to a body is on the board.
C28_OnBoard ==
    /\ \A i \in SnakeIds : \A k \in 1..Len(snakes[i].body) :
          isValidPosition(snakes[i].body[k])
    /\ \A f \in 1..Len(foods) : isValidPosition(foods[f])
    /\ \A i \in 1..Len(log) :
          (log[i].asked /\ log[i].moved) =>
              log[i].head.x \in 0..(BOARD_SIZE - 1) /\ log[i].head.y \in 0..(BOARD_SIZE - 1)

\* A tick in which the new head of a snake was off the board: the snake is
\* dead and its body holds no such cell.
C28_Witness ==
    \E i \in 1..Len(log) :
        /\ log[i].asked
        /\ ~(log[i].head.x \in 0..(BOARD_SIZE - 1) /\ log[i].head.y \in 0..(BOARD_SIZE - 1))
        /\ ~log[i].moved
        /\ ~snakes[i].alive
        /\ log[i].head \notin cells(snakes[i].body)

\* The cell setupGame stacks the segments of snake i on.
spawn(i) == initialSnakes[i].body[1]

\* The segments of a body that repeat a cell nearer the head.
repeated(body) == {k \in 1..Len(body) : \E a \in 1..(k - 1) : body[a] = body[k]}

\* The only repeated cell of snake i is its spawn cell, and every segment
\* from its first occurrence to the tail is on it.
StackedAtTail(i) ==
    LET body == snakes[i].body
    IN  \A a, b \in 1..Len(body) :
            (a < b /\ body[a] = body[b]) =>
                /\ body[a] = spawn(i)
                /\ \A k \in a..Len(body) : body[k] = spawn(i)

\* C30: a call of step never adds a repeated cell to a body (a body of
\* pairwise distinct cells stays so), and the only repeated cells a body
\* ever has are the segments stacked on the spawn cell, at its tail end.
C30_NoSelfOverlap ==
    /\ [](\A i \in SnakeIds : StackedAtTail(i))
    /\ [][Called => \A i \in SnakeIds :
                      /\ Cardinality(repeated(snakes'[i].body)) <= Cardinality(repeated(snakes[i].body))
                      /\ (repeated(snakes[i].body) = {} => repeated(snakes'[i].body) = {})]_vars

\* A tick in which a snake of pairwise distinct cells turned its head onto
\* its own body: it died and gained no cell.
C30_Witness ==
    \E i \in 1..Len(log) :
        /\ log[i].asked
        /\ ~log[i].moved
        /\ isValidPosition(log[i].head)
        /\ isColliding(log[i].head, snakes[i].body)
        /\ Len(snakes[i].body) > STARTING_LENGTH
        /\ repeated(snakes[i].body) = {}

\* C24: for every agent class, body and heading, the cell the agent
\* evaluates as its next head is the cell step moves the head to.
C24_GeometryAgrees ==
    result.kind = "geometry" => result.planned = result.stepped

\* The same for the classes other than MyAgent and GrokAgent.
GeometryAgreesButTwo ==
    (result.kind = "geometry" /\ probe.agent \notin {"MyAgent", "GrokAgent"}) =>
        result.planned = result.stepped

\* MyAgent agrees with step on left and right, GrokAgent on the bodies
\* whose last cell is their first.
GeometryOfTheTwo ==
    result.kind = "geometry" =>
        /\ (probe.agent = "MyAgent" /\ probe.heading \in {"left", "right"}) =>
                result.planned = result.stepped
        /\ (probe.agent = "MyAgent" /\ probe.heading \in {"up", "down"}) =>
                result.planned # result.stepped
        /\ probe.agent = "GrokAgent" =>
                (result.planned = result.stepped <=>
                    probe.body[Len(probe.body)] = probe.body[1])

\* The cells of the bodies of the alive snakes of the probed state.
aliveCells ==
    UNION {cells(probe.state.snakes[n].body) :
              n \in {m \in 1..Len(probe.state.snakes) : probe.state.snakes[m].alive}}

\* The same without the tail segment of every snake whose head is on no
\* food.
aliveCellsButTails ==
    UNION {{probe.state.snakes[n].body[k] :
                k \in {j \in 1..Len(probe.state.snakes[n].body) :
                          \/ j < Len(probe.state.snakes[n].body)
                          \/ probe.state.snakes[n].body[1] \in cells(probe.state.foods)}} :
              n \in {m \in 1..Len(probe.state.snakes) : probe.state.snakes[m].alive}}

\* The search from the probed cell ended within its budget of passes,
\* counted no cell twice, at most 64 cells, only cells of the 50 x 50 board
\* within distance 8 of the probed cell and none of blocked, and returned
\* their number over 64, 0 for a probed cell off the board or in blocked.
FloodFillAround(blocked) ==
    /\ result.search.passes <= 1 + 4 * MAX_SPACES
    /\ \A a, b \in 1..Len(result.search.counted) : a # b => result.search.counted[a] # result.search.counted[b]
    /\ Len(result.search.counted) <= 64
    /\ \A a \in 1..Len(result.search.counted) :
          /\ result.search.counted[a].x \in 0..49
          /\ result.search.counted[a].y \in 0..49
          /\ manhattan(result.search.counted[a], probe.position) <= 8
          /\ result.search.counted[a] \notin blocked
    /\ result.score = Len(result.search.counted)
    /\ result.score <= 64
    /\ (\/ probe.position.x \notin 0..49
        \/ probe.position.y \notin 0..49
        \/ probe.position \in blocked) => result.score = 0

\* C23: the flood fill ends, counts every cell at most once, at most 64
\* cells, only cells of the board within distance 8 of the candidate cell
\* and none of the body of an alive snake, and returns count / 64, 0 for a
\* candidate cell off the board or on such a body.
C23_BoundedFloodFill ==
    result.kind = "flood" => FloodFillAround(aliveCells)

\* C23 with the tail exemption of the code: the cells that block the search
\* are those of the segments of the alive snakes but the last one, the last
\* one too when the head of the snake is on a food.
C23_BoundedFloodFillButTails ==
    result.kind = "flood" => FloodFillAround(aliveCellsButTails)

\* The candidate cell is the tail of an alive snake whose head is on no
\* food: the cell is counted, and so are cells at distance 8.
C23_Witness ==
    /\ result.kind = "flood"
    /\ probe.state.snakes[1].alive
    /\ probe.state.foods = <<>>
    /\ probe.position = probe.state.snakes[1].body[STARTING_LENGTH]
    /\ probe.position \notin aliveCellsButTails
    /\ result.score > 0
    /\ result.search.counted[1] = probe.position
    /\ \E a \in 1..Len(result.search.counted) : manhattan(result.search.counted[a], probe.position) = 8

\* A search that stopped at 64 cells.
FloodFillCapped == result.kind = "flood" /\ Len(result.search.counted) = 64

\* A search that ran out of cells before 64.
FloodFillExhausted ==
    /\ result.kind = "flood"
    /\ Len(result.search.counted) \in 1..63

\* A search from a cell off the board or on a blocking segment.
FloodFillZero ==
    /\ result.kind = "flood"
    /\ probe.state.snakes[1].alive
    /\ result.score = 0

\* The headings that are not the reversal of a heading.
nonReversals(direction) == Direction \ {Opposite(direction)}

\* C22: asked for an alive snake, ClaudeAgent scores the three headings
\* that are not the reversal of the heading of the snake, each with 10 *
\* safety + 3 * food + 5 * space of the cell it leads to, and returns one
\* of them whose total is not below the totals of the other two.
C22_HighestTotal ==
    \A k \in CallsOf("claude") :
        \A scored \in {moveScores(calls[k].state, calls[k].index)} :
            /\ {a.direction : a \in scored} = nonReversals(headingAt(k))
            /\ Cardinality(scored) = 3
            /\ calls[k].move \in nonReversals(headingAt(k))
            /\ \A a, b \in scored :
                  a.direction = calls[k].move => notBelow(a.score, b.score)

\* A call in which the three totals differ and the heading returned is a
\* turn.
C22_Witness ==
    \E k \in CallsOf("claude") :
        \E scored \in {moveScores(calls[k].state, calls[k].index)} :
            /\ calls[k].move # headingAt(k)
            /\ \A a, b \in scored :
                  a.direction # b.direction =>
                      ~(notBelow(a.score, b.score) /\ notBelow(b.score, a.score))
====
